---- MODULE Spec2Model ----
(***************************************************************************)
(* Model of the RESP value decoder (src/src/resp/value_decoder.rs), of     *)
(* transaction result extraction (src/src/client/transaction.rs) and of    *)
(* the pub/sub stream (src/src/client/pub_sub_stream.rs).                  *)
(*                                                                         *)
(* Bytes are one-character strings, except CR and LF.  Indices into the    *)
(* buffer are kept 0-based as in the Rust code; buf[i] is buf[i+1] here.   *)
(***************************************************************************)
EXTENDS Integers, Sequences, FiniteSets, TLC

CR == "CR"
LF == "LF"
CRLF == <<CR, LF>>

DigitChars == <<"0", "1", "2", "3", "4", "5", "6", "7", "8", "9">>

IsDigit(b) == \E d \in 1..Len(DigitChars) : DigitChars[d] = b

DigitVal(b) == CHOOSE d \in 0..(Len(DigitChars) - 1) : DigitChars[d + 1] = b

(***************************************************************************)
(* Value: every variant uses the same fields so that TLC can compare any   *)
(* two values: t = variant, n = integer payload, s = byte payload,         *)
(* a = elements.                                                           *)
(***************************************************************************)
MkVal(t, n, s, a) == [t |-> t, n |-> n, s |-> s, a |-> a]
IntVal(i) == MkVal("int", i, <<>>, <<>>)
SimpleVal(s) == MkVal("simple", 0, s, <<>>)
ErrorVal(s) == MkVal("error", 0, s, <<>>)
BulkVal(s) == MkVal("bulk", 0, s, <<>>)
NilBulkVal == MkVal("nilbulk", 0, <<>>, <<>>)
ArrVal(a) == MkVal("arr", 0, <<>>, a)
NoVal == MkVal("none", 0, <<>>, <<>>)

(* Result<Option<(T, usize)>> of the decode functions, plus a panic. *)
MkRes(k, v, pos) == [k |-> k, v |-> v, pos |-> pos]
NoneR == MkRes("none", NoVal, 0)
ErrR == MkRes("err", NoVal, 0)
PanicR == MkRes("panic", NoVal, 0)
AbortR == MkRes("abort", NoVal, 0)
IdleR == MkRes("idle", NoVal, 0)
SomeR(v, pos) == MkRes("some", v, pos)

(***************************************************************************)
(* i64 arithmetic.  A debug build panics when `i * 10` or the following    *)
(* `+ d` / `- d` leaves the i64 range; a release build wraps each          *)
(* operation modulo 2^64.  While |i| < SafeMag neither operation can       *)
(* overflow, and the 2^63 bounds are not evaluated.                        *)
(***************************************************************************)
I64Min == -(2^63)
I64Max == 2^63 - 1
SafeMag == 10^8
(* Whether a large Vec::with_capacity succeeds depends on the machine's    *)
(* memory and overcommit policy, not on the code.  The decoder is run with *)
(* alloc = "ok" (every allocation succeeds) or alloc = "stop", which ends  *)
(* the decode at the first allocation of SafeMag or more Values.           *)
BigAllocR == MkRes("bigalloc", NoVal, 0)
FitsI64(x) == I64Min <= x /\ x <= I64Max
WrapI64(x) == ((x - I64Min) % (2^64)) + I64Min

(* i * 10 + sgn * d in i64 under the build; "panic" on a debug overflow. *)
StepI64(i, sgn, d, build) ==
  IF -SafeMag < i /\ i < SafeMag THEN [ok |-> TRUE, v |-> i * 10 + sgn * d]
  ELSE IF build = "release"
    THEN [ok |-> TRUE, v |-> WrapI64(WrapI64(i * 10) + sgn * d)]
  ELSE IF ~FitsI64(i * 10) \/ ~FitsI64(i * 10 + sgn * d)
    THEN [ok |-> FALSE, v |-> 0]
  ELSE [ok |-> TRUE, v |-> i * 10 + sgn * d]

(* decode_integer: the loop over (cr, is_negative, byte). *)
RECURSIVE DecodeIntegerLoop(_, _, _, _, _, _)
DecodeIntegerLoop(buf, pos, cr, neg, i, build) ==
  IF pos >= Len(buf) THEN NoneR
  ELSE LET b == buf[pos + 1] IN
    IF ~cr /\ ~neg /\ b = "-" THEN DecodeIntegerLoop(buf, pos + 1, cr, TRUE, i, build)
    ELSE IF ~cr /\ IsDigit(b)
      THEN LET st == StepI64(i, IF neg THEN -1 ELSE 1, DigitVal(b), build) IN
           IF st.ok THEN DecodeIntegerLoop(buf, pos + 1, cr, neg, st.v, build)
           ELSE PanicR
    ELSE IF ~cr /\ b = CR THEN DecodeIntegerLoop(buf, pos + 1, TRUE, neg, i, build)
    ELSE IF cr /\ b = LF THEN SomeR(IntVal(i), pos + 1)
    ELSE ErrR

DecodeInteger(buf, idx, build) == DecodeIntegerLoop(buf, idx, FALSE, FALSE, 0, build)

(* decode_string: bytes up to the first CR, which must be followed by LF. *)
RECURSIVE DecodeStringLoop(_, _, _, _)
DecodeStringLoop(buf, idx, pos, cr) ==
  IF pos >= Len(buf) THEN NoneR
  ELSE LET b == buf[pos + 1] IN
    IF ~cr /\ b = CR THEN DecodeStringLoop(buf, idx, pos + 1, TRUE)
    ELSE IF cr /\ b = LF
      THEN SomeR(SimpleVal(SubSeq(buf, idx + 1, pos - 1)), pos + 1)
    ELSE IF ~cr THEN DecodeStringLoop(buf, idx, pos + 1, cr)
    ELSE ErrR

DecodeString(buf, idx) == DecodeStringLoop(buf, idx, idx, FALSE)

(***************************************************************************)
(* decode_bulk_string.  `len as usize` of a negative len is 2^64 + len.    *)
(* `len as usize + 2` overflows exactly when len + 2 >= 0, i.e. len = -2:  *)
(* a debug build panics, a release build wraps to len + 2.  Then           *)
(* `pos + len as usize` wraps (release) to pos + len, the two bytes there  *)
(* are compared with CR LF and the slice buf[pos..pos+len] has start >     *)
(* end, which panics.  For len <= -3 the sum 2^64 + len + 2 does not       *)
(* overflow and exceeds every buffer length, so the EOF branch is taken.   *)
(***************************************************************************)
DecodeBulkString(buf, idx, build) ==
  LET r == DecodeInteger(buf, idx, build) IN
  IF r.k # "some" THEN r
  ELSE IF r.v.n = -1 THEN SomeR(NilBulkVal, r.pos)
  ELSE
    LET len == r.v.n
        pos == r.pos
    IN IF len >= 0 THEN
         IF Len(buf) - pos < len + 2 THEN NoneR
         ELSE IF buf[pos + len + 1] # CR \/ buf[pos + len + 2] # LF THEN ErrR
         ELSE SomeR(BulkVal(SubSeq(buf, pos + 1, pos + len)), pos + len + 2)
       ELSE IF len + 2 >= 0 THEN
         IF build = "debug" THEN PanicR
         ELSE IF Len(buf) - pos < len + 2 THEN NoneR
         ELSE IF buf[pos + len + 1] # CR \/ buf[pos + len + 2] # LF THEN ErrR
         ELSE PanicR
       ELSE NoneR

RECURSIVE Decode(_, _, _, _), DecodeArrayLoop(_, _, _, _, _, _)

DecodeArrayLoopPartial(buf, pos, left, values, build, alloc) ==
  IF left = 0 THEN SomeR(ArrVal(values), pos)
  ELSE LET r == Decode(buf, pos, build, alloc) IN
    IF r.k = "none" THEN SomeR(ArrVal(values), pos)
    ELSE IF r.k # "some" THEN r
    ELSE DecodeArrayLoop(buf, r.pos, left - 1, Append(values, r.v), build, alloc)

(* The `for _ in 0..len` loop of decode_array. *)
DecodeArrayLoop(buf, pos, left, values, build, alloc) ==
  IF left = 0 THEN SomeR(ArrVal(values), pos)
  ELSE LET r == Decode(buf, pos, build, alloc) IN
    IF r.k # "some" THEN r
    ELSE DecodeArrayLoop(buf, r.pos, left - 1, Append(values, r.v), build, alloc)

(* decode_array: -1 gives the empty vector.  Vec::with_capacity(len as    *)
(* usize) of 32-byte Values runs before any element is read: a negative    *)
(* length (2^64 + len as usize), or one whose 32 * len bytes exceed        *)
(* isize::MAX, panics with "capacity overflow"; an allocation of SafeMag   *)
(* or more Values may fail on the machine, which aborts the process.       *)
DecodeArray(buf, idx, build, alloc) ==
  LET r == DecodeInteger(buf, idx, build) IN
  IF r.k # "some" THEN r
  ELSE IF r.v.n = -1 THEN SomeR(ArrVal(<<>>), r.pos)
  ELSE IF r.v.n < 0 THEN PanicR
  ELSE IF r.v.n >= SafeMag /\ r.v.n * 32 > I64Max THEN PanicR
  ELSE IF r.v.n >= SafeMag /\ alloc = "stop" THEN BigAllocR
  ELSE DecodeArrayLoop(buf, r.pos, r.v.n, <<>>, build, alloc)

(* fn decode(buf, idx) *)
Decode(buf, idx, build, alloc) ==
  IF Len(buf) <= idx THEN NoneR
  ELSE LET fb == buf[idx + 1]
           i == idx + 1
       IN CASE fb = "$" -> DecodeBulkString(buf, i, build)
            [] fb = "*" -> DecodeArray(buf, i, build, alloc)
            [] fb = ":" -> DecodeInteger(buf, i, build)
            [] fb = "+" -> DecodeString(buf, i)
            [] fb = "-" -> LET r == DecodeString(buf, i) IN
                           IF r.k = "some" THEN SomeR(ErrorVal(r.v.s), r.pos) ELSE r
            [] OTHER -> ErrR

(* ValueDecoder::decode: Ok(None) leaves src alone; Some advances by pos. *)
ValueDecode(src, build, alloc) == Decode(src, 0, build, alloc)

(* The results ValueDecoder::decode can give on src: when the decode       *)
(* reaches a large allocation, the allocation succeeds or the process      *)
(* aborts.                                                                 *)
DecodeOutcomes(src, build) ==
  LET r == ValueDecode(src, build, "stop") IN
  IF r.k = "bigalloc" THEN {ValueDecode(src, build, "ok"), AbortR} ELSE {r}

AdvanceBuf(src, res) ==
  IF res.k = "some" THEN SubSeq(src, res.pos + 1, Len(src)) ELSE src

(***************************************************************************)
(* Well-formed frames of the types the decoder supports, produced by the  *)
(* RESP grammar of the protocol from abstract frame descriptions.         *)
(***************************************************************************)
RECURSIVE Digits(_)
Digits(n) == IF n < Len(DigitChars) THEN <<DigitChars[n + 1]>>
             ELSE Digits(n \div Len(DigitChars)) \o <<DigitChars[(n % Len(DigitChars)) + 1]>>

Signed(n) == IF n < 0 THEN <<"-">> \o Digits(-n) ELSE Digits(n)

RECURSIVE Enc(_)
Enc(f) ==
  CASE f.t = "simple" -> <<"+">> \o f.s \o CRLF
    [] f.t = "error" -> <<"-">> \o f.s \o CRLF
    [] f.t = "int" -> <<":">> \o Signed(f.n) \o CRLF
    [] f.t = "bulk" -> <<"$">> \o Signed(Len(f.s)) \o CRLF \o f.s \o CRLF
    [] f.t = "nilbulk" -> <<"$">> \o Signed(-1) \o CRLF
    [] f.t = "nullarr" -> <<"*">> \o Signed(-1) \o CRLF
    [] f.t = "arr" ->
         LET RECURSIVE Cat(_)
             Cat(a) == IF a = <<>> THEN <<>> ELSE Enc(Head(a)) \o Cat(Tail(a))
         IN <<"*">> \o Signed(Len(f.a)) \o CRLF \o Cat(f.a)

NullArrVal == MkVal("nullarr", 0, <<>>, <<>>)

LeafFrames ==
  { SimpleVal(<<"O", "K">>), ErrorVal(<<"E", "R", "R", " ", "x">>),
    IntVal(12), IntVal(-3), BulkVal(<<"a", "b">>), BulkVal(CRLF),
    BulkVal(<<>>), NilBulkVal, NullArrVal, ArrVal(<<>>) }

FrameDescs ==
  LeafFrames \cup
  { ArrVal(<<IntVal(1), BulkVal(<<"a">>)>>),
    ArrVal(<<ArrVal(<<SimpleVal(<<"a">>)>>), NilBulkVal>>) }

AllFrames == { Enc(f) : f \in FrameDescs }

MaxFrames == 2

FrameSeqs == UNION { [1..n -> AllFrames] : n \in 1..MaxFrames }

RECURSIVE Concat(_)
Concat(fs) == IF fs = <<>> THEN <<>> ELSE Head(fs) \o Concat(Tail(fs))

Builds == {"debug", "release"}

(***************************************************************************)
(* A connection's read side: the byte stream S = F1..Fn arrives in chunks  *)
(* of any size appended to the codec's buffer; the codec calls            *)
(* ValueDecoder::decode on the buffer, and each Some(value) is emitted.   *)
(***************************************************************************)
VARIABLES frames, pending, buf, prev, out, adv, lastRes, build,
          probe, pres,
          tflags, treplies, tres, tpc, texec, tcmds,
          psCh, psPat, psSh, psClosed, closeStage, closeNames, closeRes, pspc,
          origNames, srvSubs, registry, sink, recv, lastPoll, pollCount,
          pubLog, pubCount, dropCount, ffQueue, ffSent, heldAtDrop,
          xitem, xres,
          autoResub, reconn, resub, postLog, delMark, dropMark,
          plQueue, plWire, plBatches, plResp, plOut, plServed, plArr, plBuf,
          plSlot, plDone

decVars == <<frames, pending, buf, prev, out, adv, lastRes, build>>
probeVars == <<probe, pres>>
txVars == <<tflags, treplies, tres, tpc, texec, tcmds>>
psVars == <<psCh, psPat, psSh, psClosed, closeStage, closeNames, closeRes, pspc,
            origNames, srvSubs, registry, sink, recv, lastPoll, pollCount,
            pubLog, pubCount, dropCount, ffQueue, ffSent, heldAtDrop>>
xVars == <<xitem, xres>>
rcVars == <<autoResub, reconn, resub, postLog, delMark, dropMark>>
plVars == <<plQueue, plWire, plBatches, plResp, plOut, plServed, plArr, plBuf,
            plSlot, plDone>>
vars == <<frames, pending, buf, prev, out, adv, lastRes, build,
          probe, pres, tflags, treplies, tres, tpc, texec, tcmds,
          psVars, xVars, rcVars, plVars>>

ProbeIdle == /\ probe = <<>> /\ pres = IdleR
TxIdle == /\ tflags = <<>> /\ treplies = <<>> /\ tres = [k |-> "idle", v |-> NoVal, e |-> ""] /\ tpc = "idle"
          /\ texec = <<>> /\ tcmds = <<>>

(* Result of polling a PubSubStream: an item Ok(PubSubMessage), an Err    *)
(* item, end of stream, or nothing polled yet.                             *)
XRes(k, pat, ch, pl) == [k |-> k, pattern |-> pat, channel |-> ch, payload |-> pl]
NoPoll == XRes("idle", NoVal, NoVal, NoVal)

PsIdle ==
  /\ psCh = {} /\ psPat = {} /\ psSh = {} /\ psClosed = FALSE
  /\ closeStage = "none" /\ closeNames = {} /\ closeRes = "none" /\ pspc = "idle"
  /\ origNames = {} /\ srvSubs = {} /\ registry = {}
  /\ sink = <<>> /\ recv = <<>> /\ lastPoll = NoPoll /\ pollCount = 0
  /\ pubLog = <<>> /\ pubCount = 0 /\ dropCount = 0
  /\ ffQueue = {} /\ ffSent = {} /\ heldAtDrop = {}

XIdle == xitem = NoVal /\ xres = NoPoll
RcIdle ==
  /\ autoResub = TRUE /\ reconn = "none" /\ resub = FALSE
  /\ postLog = <<>> /\ delMark = 0 /\ dropMark = 0
PlIdle ==
  /\ plQueue = <<>> /\ plWire = <<>> /\ plBatches = <<>> /\ plResp = <<>>
  /\ plOut = <<>> /\ plServed = 0 /\ plArr = 0 /\ plBuf = <<>>
  /\ plSlot = <<>> /\ plDone = <<>>

Init ==
  /\ frames \in FrameSeqs
  /\ pending = Concat(frames)
  /\ buf = <<>>
  /\ prev = <<>>
  /\ out = <<>>
  /\ adv = 0
  /\ lastRes = IdleR
  /\ build \in Builds
  /\ ProbeIdle
  /\ TxIdle
  /\ PsIdle
  /\ XIdle
  /\ RcIdle /\ PlIdle

(* Bytes read from the socket are appended to the buffer. *)
AppendChunk ==
  /\ pending # <<>>
  /\ \E k \in 1..Len(pending) :
       /\ buf' = buf \o SubSeq(pending, 1, k)
       /\ pending' = SubSeq(pending, k + 1, Len(pending))
  /\ prev' = buf'
  /\ lastRes' = IdleR
  /\ UNCHANGED <<frames, out, adv, build, probeVars, txVars, psVars, xVars, rcVars, plVars>>

(* One call of ValueDecoder::decode on the buffer. *)
DecodeStep ==
  /\ lastRes.k \in {"idle", "none", "some"}
  /\ \E r \in DecodeOutcomes(buf, build) :
       /\ lastRes' = r
       /\ prev' = buf
       /\ buf' = AdvanceBuf(buf, r)
       /\ out' = IF r.k = "some" THEN Append(out, r.v) ELSE out
       /\ adv' = IF r.k = "some" THEN adv + r.pos ELSE adv
  /\ UNCHANGED <<frames, pending, build, probeVars, txVars, psVars, xVars, rcVars, plVars>>

Next == AppendChunk \/ DecodeStep

Spec == Init /\ [][Next]_vars

(***************************************************************************)
(* Claims about the decoder on a fragmented stream of well-formed frames.  *)
(***************************************************************************)
IsStrictFramePrefix(b) ==
  \E f \in AllFrames : Len(b) < Len(f) /\ b = SubSeq(f, 1, Len(b))

(* C1: for a buffer holding a strict prefix of a well-formed frame,        *)
(* ValueDecoder::decode returns Ok(None) and leaves the buffer unadvanced. *)
DecoderPartialSafety ==
  (lastRes.k # "idle" /\ IsStrictFramePrefix(prev)) =>
     (lastRes.k = "none" /\ buf = prev)

C1Witness ==
  /\ lastRes.k = "none"
  /\ IsStrictFramePrefix(prev)
  /\ Len(prev) > 4
  /\ prev[1] = "*"

(* The value each frame decodes to on its own, and its length. *)
FrameValue(f) == ValueDecode(f, "debug", "ok").v

RECURSIVE SumLens(_, _)
SumLens(fs, n) == IF n = 0 THEN 0 ELSE Len(fs[n]) + SumLens(fs, n - 1)

(* C2: whatever the chunking, the decoder emits exactly the values of      *)
(* F1..Fn in order, each from exactly one frame, never an error, and once  *)
(* all of S has arrived and decode returns None it has advanced by |S|.    *)
FragmentationIndependence ==
  /\ lastRes.k \in {"idle", "none", "some"}
  /\ \A i \in 1..Len(frames) :
        \A r \in DecodeOutcomes(frames[i], build) :
          r.k = "some" /\ r.pos = Len(frames[i])
  /\ Len(out) <= Len(frames)
  /\ \A i \in 1..Len(out) : out[i] = FrameValue(frames[i])
  /\ adv = SumLens(frames, Len(out))
  /\ buf \o pending = SubSeq(Concat(frames), adv + 1, Len(Concat(frames)))
  /\ (pending = <<>> /\ lastRes.k = "none") =>
        (Len(out) = Len(frames) /\ adv = Len(Concat(frames)))

C2Witness ==
  /\ pending = <<>>
  /\ lastRes.k = "none"
  /\ Len(frames) = MaxFrames
  /\ Len(out) = MaxFrames
  /\ frames[1][1] = "*"

(***************************************************************************)
(* Single calls of ValueDecoder::decode on a fixed buffer, in either       *)
(* build profile (the two differ only on integer overflow).                *)
(***************************************************************************)
MaxBody == 3
MaxNeg == 3

BodyBytes == {"-", "1", "2", "a"}
Bodies == UNION { [1..n -> BodyBytes] : n \in 1..MaxBody }
Payloads == UNION { [1..n -> {"a", CR, LF}] : n \in 0..2 }

Str5(a, b, c, d, e) == <<a, b, c, d, e>>
Hello == Str5("h", "e", "l", "l", "o")

NullArrayFrame == <<"*">> \o Signed(-1) \o CRLF
NilBulkFrame == <<"$">> \o Signed(-1) \o CRLF
NegLenFrames == { <<h>> \o Signed(-n) \o CRLF : h \in {"$", "*"}, n \in 2..MaxNeg }
IntFrames == { <<h>> \o b \o CRLF : h \in {":", "$", "*"}, b \in Bodies \cup {<<>>} }
BulkFrame(p) == <<"$">> \o Signed(Len(p)) \o CRLF \o p \o CRLF
(* bulk headers followed by more than n bytes whose two bytes after the   *)
(* n-byte payload are not CR LF, and the example `$6\r\nhello\r\n`.       *)
BadTailFrames ==
  UNION { { <<"$">> \o Signed(n) \o CRLF \o q :
              q \in { p \in UNION { [1..m -> {"a", CR, LF}] : m \in 2..3 } :
                       Len(p) >= n + 2 /\ SubSeq(p, n + 1, n + 2) # CRLF } } :
          n \in 0..1 }
  \cup { <<"$">> \o Signed(6) \o CRLF \o Hello \o CRLF }

MapFrame == <<"%", "1">> \o CRLF \o Enc(IntVal(1)) \o Enc(IntVal(2))
SetFrame == <<"~", "2">> \o CRLF \o Enc(IntVal(1)) \o Enc(IntVal(2))
PushFrame == <<">", "1">> \o CRLF \o Enc(IntVal(1))
Resp3AggFrames == {MapFrame, SetFrame, PushFrame}
Prefixes(f) == { SubSeq(f, 1, k) : k \in 0..(Len(f) - 1) }

TrueFrame == <<"#", "t">> \o CRLF
FalseFrame == <<"#", "f">> \o CRLF
NullFrame == <<"_">> \o CRLF
DoubleFrame == <<",", "1", ".", "5">> \o CRLF
BadScalarFrames ==
  { <<"#">> \o Str5("w", "r", "o", "n", "g") \o CRLF,
    <<"_">> \o Str5("w", "r", "o", "n", "g") \o CRLF,
    <<",", "1", "2", "a">> \o CRLF }

ErrKind == <<"E", "R", "R">>
ErrDesc == <<"b", "a", "d">>
ErrorFrame == <<"-">> \o ErrKind \o <<" ">> \o ErrDesc \o CRLF

Probes ==
  AllFrames \cup {NullArrayFrame, NilBulkFrame} \cup NegLenFrames \cup IntFrames
  \cup { BulkFrame(p) : p \in Payloads } \cup BadTailFrames
  \cup Resp3AggFrames \cup UNION { Prefixes(f) : f \in Resp3AggFrames }
  \cup {TrueFrame, FalseFrame, NullFrame, DoubleFrame} \cup BadScalarFrames
  \cup {ErrorFrame}

DecIdle ==
  /\ frames = <<>> /\ pending = <<>> /\ buf = <<>> /\ prev = <<>>
  /\ out = <<>> /\ adv = 0 /\ lastRes = IdleR

ProbeInit ==
  /\ probe \in Probes
  /\ pres = IdleR
  /\ build \in Builds
  /\ DecIdle
  /\ TxIdle
  /\ PsIdle
  /\ XIdle
  /\ RcIdle /\ PlIdle

DecodeProbe ==
  /\ pres = IdleR
  /\ pres' \in DecodeOutcomes(probe, build)
  /\ UNCHANGED <<probe, decVars, txVars, psVars, xVars, rcVars, plVars>>

ProbeNext == DecodeProbe

ProbeSpec == ProbeInit /\ [][ProbeNext]_vars

Decoded == pres # IdleR

(* C3: `*-1\r\n` decodes to the null array Array(None), not the empty      *)
(* array, and `$-1\r\n` decodes to BulkString(None).                       *)
NullLengthDecodesToNull ==
  Decoded =>
    /\ probe = NullArrayFrame => pres = SomeR(NullArrVal, Len(probe))
    /\ probe = NilBulkFrame => pres = SomeR(NilBulkVal, Len(probe))

(* C4: a `$` or `*` header with a negative length other than -1 makes      *)
(* decode return a Parse error (not a value, NeedMoreData or a panic).     *)
OtherNegativeLengthIsError ==
  (Decoded /\ probe \in NegLenFrames) => pres.k = "err"

IsIntBody(b) ==
  LET digitsFrom(k) == k <= Len(b) /\ \A j \in k..Len(b) : IsDigit(b[j])
  IN Len(b) >= 1 /\ (digitsFrom(1) \/ (b[1] = "-" /\ digitsFrom(2)))

(* C5: integer parsing (`:` frames, `$`/`*` headers) accepts only an       *)
(* optional single leading `-` followed by digits before CR; anything else *)
(* makes decode return a Parse error.                                      *)
IntegerSyntaxEnforced ==
  (Decoded /\ probe \in IntFrames /\ ~IsIntBody(SubSeq(probe, 2, Len(probe) - 2)))
    => pres.k = "err"

(* C6: `$n\r\n` + n arbitrary bytes + `\r\n` yields exactly those bytes;   *)
(* if the two bytes after the payload are not `\r\n`, decode errors.       *)
BulkPayloadVerbatim ==
  Decoded =>
    /\ \A p \in Payloads : probe = BulkFrame(p) => pres = SomeR(BulkVal(p), Len(probe))
    /\ probe \in BadTailFrames => pres.k = "err"

(* C7: `%n` decodes 2n frames into a flat Array, `~n` n frames into an     *)
(* Array, `>n` n frames into a Push; strict prefixes yield NeedMoreData.   *)
Resp3AggregatesDecoded ==
  Decoded =>
    /\ probe = MapFrame => pres = SomeR(ArrVal(<<IntVal(1), IntVal(2)>>), Len(probe))
    /\ probe = SetFrame => pres = SomeR(ArrVal(<<IntVal(1), IntVal(2)>>), Len(probe))
    /\ probe = PushFrame => pres = SomeR(MkVal("push", 0, <<>>, <<IntVal(1)>>), Len(probe))
    /\ probe \in UNION { Prefixes(f) : f \in Resp3AggFrames } => pres = NoneR

(* C8: `#t`/`#f` decode to Integer(1)/Integer(0), `_\r\n` to              *)
(* BulkString(None), `,<decimal>` to a Double; malformed payloads error.   *)
Resp3ScalarsDecoded ==
  Decoded =>
    /\ probe = TrueFrame => pres = SomeR(IntVal(1), Len(probe))
    /\ probe = FalseFrame => pres = SomeR(IntVal(0), Len(probe))
    /\ probe = NullFrame => pres = SomeR(NilBulkVal, Len(probe))
    /\ probe = DoubleFrame => pres.k = "some" /\ pres.v.t = "double"
    /\ probe \in BadScalarFrames => pres.k = "err"

(* C9: `-ERR bad\r\n` decodes to an Error whose kind is the word before    *)
(* the first space (ERR) and whose description is the remainder; the      *)
(* decoded error value's text must therefore be the kind alone.            *)
ErrorKindSplit ==
  (Decoded /\ probe = ErrorFrame) =>
    (pres.k = "some" /\ pres.v.t = "error" /\ pres.v.s = ErrKind)

(***************************************************************************)
(* Transaction (src/src/client/transaction.rs).  forget_flags holds one    *)
(* flag per queued command, MULTI first.  execute() appends EXEC, sends    *)
(* the batch and receives one reply per command from the server.           *)
(***************************************************************************)
MaxCmds == 3
CmdNames == {"GET", "SET"}

TxRes(k, v, e) == [k |-> k, v |-> v, e |-> e]
TxIdleRes == TxRes("idle", NoVal, "")
TxOk(v) == TxRes("ok", v, "")
TxErr(e, v) == TxRes("err", v, e)

NilVal == MkVal("nil", 0, <<>>, <<>>)
AckVal == SimpleVal(<<"Q">>)
ResVals == { SimpleVal(<<"O", "K">>), BulkVal(<<"v">>), ErrorVal(<<"E">>) }

TxInit ==
  /\ tflags = <<FALSE>>
  /\ tcmds = <<"MULTI">>
  /\ treplies = <<>>
  /\ tres = TxIdleRes
  /\ tpc = "building"
  /\ texec = <<>>
  /\ build = "debug"
  /\ DecIdle
  /\ ProbeIdle
  /\ PsIdle
  /\ XIdle
  /\ RcIdle /\ PlIdle

(* Transaction::queue *)
Queue ==
  /\ tpc = "building"
  /\ Len(tflags) <= MaxCmds
  /\ \E c \in CmdNames : tcmds' = Append(tcmds, c)
  /\ tflags' = Append(tflags, FALSE)
  /\ UNCHANGED <<treplies, tres, tpc, texec, decVars, probeVars, psVars, xVars, rcVars, plVars>>

(* Transaction::forget *)
Forget ==
  /\ tpc = "building"
  /\ Len(tflags) <= MaxCmds
  /\ \E c \in CmdNames : tcmds' = Append(tcmds, c)
  /\ tflags' = Append(tflags, TRUE)
  /\ UNCHANGED <<treplies, tres, tpc, texec, decVars, probeVars, psVars, xVars, rcVars, plVars>>

(* ResultValueExt::into_result: an error reply becomes Err(Error::Redis). *)
IntoResult(v) == IF v.t = "error" THEN TxErr("redis", v) ELSE TxOk(v)

SkipNone(fl) == fl

(* self.forget_flags.iter().skip(1) *)
SkipFirst(fl) == SubSeq(fl, 2, Len(fl))

(* zip(results, flags).filter_map(|(v, f)| if f { None } else { Some(v) }) *)
RECURSIVE ZipFilter(_, _)
ZipFilter(results, fl) ==
  IF results = <<>> \/ fl = <<>> THEN <<>>
  ELSE (IF Head(fl) THEN <<>> ELSE <<Head(results)>>) \o ZipFilter(Tail(results), Tail(fl))

MinOf(S) == CHOOSE x \in S : \A y \in S : x <= y

LeadErrorsShort(replies, num) ==
  { i \in 1..(num - 2) : i <= Len(replies) /\ replies[i].t = "error" }

(* for _ in 0..num_commands - 1 { if let Some(Value::Error(e)) = iter.next() *)
LeadErrors(replies, num) ==
  { i \in 1..(num - 1) : i <= Len(replies) /\ replies[i].t = "error" }

ExecReplyResultLenient(r, fl) ==
  IF r.t = "arr" THEN
    LET filtered == ZipFilter(r.a, SkipFirst(fl)) IN
    IF Len(filtered) = 1 THEN IntoResult(filtered[1]) ELSE TxOk(ArrVal(filtered))
  ELSE IF r.t = "nil" THEN TxErr("aborted", NoVal)
  ELSE TxOk(r)

ExecReplyResultNoInto(r, fl) ==
  IF r.t = "arr" THEN
    LET filtered == ZipFilter(r.a, SkipFirst(fl)) IN
    IF Len(filtered) = 1 THEN TxOk(filtered[1]) ELSE TxOk(ArrVal(filtered))
  ELSE IF r.t = "nil" THEN TxErr("aborted", NoVal)
  ELSE TxErr("client", NoVal)

(* match result { Value::Array(..) => .., Value::Nil => .., _ => .. } *)
ExecReplyResult(r, fl) ==
  IF r.t = "arr" THEN
    LET filtered == ZipFilter(r.a, SkipFirst(fl)) IN
    IF Len(filtered) = 1 THEN IntoResult(filtered[1]) ELSE TxOk(ArrVal(filtered))
  ELSE IF r.t = "nil" THEN TxErr("aborted", NoVal)
  ELSE TxErr("client", NoVal)

(* Transaction::execute, from the batch replies on. *)
ExecuteResult(flags0, replies) ==
  LET fl == Append(flags0, FALSE)
      num == Len(fl)
      lead == LeadErrors(replies, num)
  IN IF lead # {} THEN TxErr("redis", replies[MinOf(lead)])
     ELSE IF Len(replies) < num THEN TxErr("client", NoVal)
     ELSE ExecReplyResult(replies[num], fl)

(* The server's replies on the wire to MULTI, the queued commands and     *)
(* EXEC; the codec decodes each into the Value execute() receives.         *)
ServerReplies(flags0) ==
  LET nq == Len(flags0) - 1 IN
  { lead \o <<exec>> :
      lead \in [1..Len(flags0) -> {Enc(AckVal), Enc(ErrorVal(<<"E">>))}],
      exec \in { Enc(ArrVal(rs)) : rs \in [1..nq -> ResVals] }
              \cup {NullArrayFrame, Enc(IntVal(0)), Enc(ErrorVal(<<"X">>))} }

(* The Values the codec can give for the reply frames in w. *)
RECURSIVE DecodeReplies(_)
DecodeReplies(w) ==
  IF w = <<>> THEN {<<>>}
  ELSE { <<r.v>> \o rest : r \in DecodeOutcomes(Head(w), "debug"), rest \in DecodeReplies(Tail(w)) }

Execute ==
  /\ tpc = "building"
  /\ \E w \in ServerReplies(tflags) : \E d \in DecodeReplies(w) :
       /\ texec' = w[Len(w)]
       /\ treplies' = d
       /\ tres' = ExecuteResult(tflags, d)
  /\ tpc' = "done"
  /\ tcmds' = Append(tcmds, "EXEC")
  /\ UNCHANGED <<tflags, decVars, probeVars, psVars, xVars, rcVars, plVars>>

TxNext == Queue \/ Forget \/ Execute

TxSpec == TxInit /\ [][TxNext]_vars

NumQueued == Len(tflags) - 1
ExecReply == treplies[Len(treplies)]
LeadOk == \A i \in 1..(Len(treplies) - 1) : treplies[i].t # "error"

(* C10: on an EXEC array reply (no error before it), execute keeps the     *)
(* results of the commands not queued with forget, in queue order; one     *)
(* survivor is returned unwrapped (a server error reply as the Err), and   *)
(* otherwise the survivors are returned as an Array.                       *)
Survivors ==
  LET idx == SelectSeq([j \in 1..NumQueued |-> j], LAMBDA j : ~tflags[j + 1])
  IN [x \in 1..Len(idx) |-> ExecReply.a[idx[x]]]

ExecuteFiltersForgotten ==
  (tpc = "done" /\ LeadOk /\ ExecReply.t = "arr" /\ Len(ExecReply.a) = NumQueued) =>
    tres = IF Len(Survivors) = 1
             THEN (IF Survivors[1].t = "error" THEN TxErr("redis", Survivors[1])
                   ELSE TxOk(Survivors[1]))
             ELSE TxOk(ArrVal(Survivors))

C10Witness ==
  /\ tpc = "done"
  /\ tflags = <<FALSE, TRUE, FALSE>>
  /\ ExecReply = ArrVal(<<SimpleVal(<<"O", "K">>), BulkVal(<<"v">>)>>)
  /\ tres = TxOk(BulkVal(<<"v">>))

NullExecAborts ==
  (tpc = "done" /\ LeadOk /\ texec = NullArrayFrame) => tres = TxErr("aborted", NoVal)

(* C13: an EXEC reply that is neither an array nor the null reply makes    *)
(* execute fail with a client (unexpected transaction reply) error.        *)
OtherExecReplyIsClientError ==
  (tpc = "done" /\ LeadOk /\ ExecReply.t \notin {"arr", "nil"}) =>
    (tres.k = "err" /\ tres.e = "client")

C13Witness ==
  /\ tpc = "done" /\ LeadOk /\ ExecReply.t = "error" /\ tres.e = "client"

(* C14: when every queued command was queued with forget, a successful     *)
(* EXEC makes execute return Array([]).                                    *)
AllForgottenGivesEmptyArray ==
  (tpc = "done" /\ LeadOk /\ ExecReply.t = "arr"
   /\ \A j \in 2..Len(tflags) : tflags[j]) =>
    tres = TxOk(ArrVal(<<>>))

C14Witness ==
  /\ tpc = "done" /\ LeadOk /\ ExecReply.t = "arr" /\ Len(tflags) = 3
  /\ tflags[2] /\ tflags[3] /\ tres = TxOk(ArrVal(<<>>))
(***************************************************************************)
(* PubSubStream (src/src/client/pub_sub_stream.rs) on one pub/sub client   *)
(* connection, with the server's subscription set, the client's           *)
(* name -> sink registry and the stream's sink (router and server side     *)
(* from the spec, sections 3.4, 4.2 and 4.5).                              *)
(***************************************************************************)
MaxPub == 3
SinkCap == 2
MaxPolls == 3

ChannelNames == {"c1", "c2"}
PatternOrder == <<"c*", "c1">>
PatternNames == { PatternOrder[i] : i \in 1..Len(PatternOrder) }
ShardNames == {"s1", "s2"}
Msgs == {"m1", "m2"}
Kinds == {"ch", "pat", "sh"}

Name(k, n) == [k |-> k, n |-> n]
NamesOfKind(k) == CASE k = "ch" -> ChannelNames [] k = "pat" -> PatternNames
                    [] k = "sh" -> ShardNames

(* The server's glob match; "c*" matches every channel here. *)
PatMatches(p, c) == p = "c*" \/ p = c

MessageItem(c, m) == ArrVal(<<BulkVal(<<c>>), BulkVal(<<m>>)>>)
PMessageItem(pt, c, m) == ArrVal(<<BulkVal(<<pt>>), BulkVal(<<c>>), BulkVal(<<m>>)>>)
(* msg: the message the spec says the subscriber receives for the push. *)
Push(key, item, msg) == [key |-> key, item |-> item, msg |-> msg]

ExtractMessageSwapped(v) ==
  LET parts == v.a IN
  IF Len(parts) = 3 THEN XRes("ok", parts[2], parts[1], parts[3])
  ELSE IF Len(parts) = 2 THEN XRes("ok", NilVal, parts[2], parts[1])
  ELSE XRes("err", NoVal, NoVal, NoVal)

(* extract_message: [pattern, channel, payload] -> from_pmessage,          *)
(* [channel, payload] -> from_message (pattern Value::Nil), else Client.   *)
ExtractMessage(v) ==
  LET parts == v.a IN
  IF Len(parts) = 3 THEN XRes("ok", parts[1], parts[2], parts[3])
  ELSE IF Len(parts) = 2 THEN XRes("ok", NilVal, parts[1], parts[2])
  ELSE XRes("err", NoVal, NoVal, NoVal)

EndOfStream == XRes("end", NoVal, NoVal, NoVal)
Pending == XRes("pending", NoVal, NoVal, NoVal)

(* An Err(e) item the receiver can yield, next to the Ok(Value) items. *)
ErrItem(e) == MkVal("erritem", 0, e, <<>>)

(* The next item of the receiver: Ok(v) goes through extract_message,     *)
(* Err(e) is passed on unchanged.                                          *)
ReceiverItem(h) ==
  IF h.t = "erritem" THEN XRes("err", NoVal, NoVal, ErrorVal(h.s))
  ELSE ExtractMessage(h)

PollResultIgnoringClosed(closed, snk, ended) ==
  IF snk # <<>> THEN ReceiverItem(Head(snk))
  ELSE IF closed \/ ended THEN EndOfStream ELSE Pending

(* poll_next: closed -> Ready(None); else the receiver's next item:      *)
(* Ok(v) -> extract_message(v), Err(e) -> Err(e), and Ready(None) once the *)
(* receiver is empty and every sender is gone (ended).                     *)
PollResult(closed, snk, ended) ==
  IF closed THEN EndOfStream
  ELSE IF snk # <<>> THEN ReceiverItem(Head(snk))
  ELSE IF ended THEN EndOfStream
  ELSE Pending

(* Pushes the server sends this connection for a PUBLISH/SPUBLISH to t:   *)
(* the message for a channel subscription, then one pmessage per          *)
(* subscribed pattern matching t, in subscription order.                   *)
PushesFor(subs, t, m) ==
  IF t \in ShardNames
    THEN IF Name("sh", t) \in subs THEN <<Push(Name("sh", t), MessageItem(t, m), XRes("ok", NilVal, BulkVal(<<t>>), BulkVal(<<m>>)))>> ELSE <<>>
    ELSE (IF Name("ch", t) \in subs THEN <<Push(Name("ch", t), MessageItem(t, m), XRes("ok", NilVal, BulkVal(<<t>>), BulkVal(<<m>>)))>> ELSE <<>>)
         \o [i \in 1..Len(SelectSeq(PatternOrder,
                                    LAMBDA pt : Name("pat", pt) \in subs /\ PatMatches(pt, t)))
              |-> LET pt == SelectSeq(PatternOrder,
                                      LAMBDA q : Name("pat", q) \in subs /\ PatMatches(q, t))[i]
                  IN Push(Name("pat", pt), PMessageItem(pt, t, m),
                          XRes("ok", BulkVal(<<pt>>), BulkVal(<<t>>), BulkVal(<<m>>)))]

(* Router: deliver to the sink registered under the key; a missing sink  *)
(* or a full sink drops the push.                                          *)
RECURSIVE Route(_, _, _, _)
Route(snk, drops, pushes, reg) ==
  IF pushes = <<>> THEN [sink |-> snk, drops |-> drops]
  ELSE IF Head(pushes).key \in reg /\ Len(snk) < SinkCap
    THEN Route(Append(snk, Head(pushes).item), drops, Tail(pushes), reg)
    ELSE Route(snk, drops + 1, Tail(pushes), reg)

(* The sets a stream holds, as (kind, name) pairs. *)
Held(ch, pat, sh) ==
  { Name("ch", n) : n \in ch } \cup { Name("pat", n) : n \in pat } \cup { Name("sh", n) : n \in sh }

UnsubCmd(k, names) == [k |-> k, names |-> names]

DropCmdsNoShard(ch, pat, sh) ==
  (IF ch # {} THEN {UnsubCmd("ch", ch)} ELSE {})
  \cup (IF pat # {} THEN {UnsubCmd("pat", pat)} ELSE {})

(* Drop: unsubscribe / punsubscribe / sunsubscribe (...).forget() for     *)
(* each non-empty set.                                                     *)
DropCmds(ch, pat, sh) ==
  (IF ch # {} THEN {UnsubCmd("ch", ch)} ELSE {})
  \cup (IF pat # {} THEN {UnsubCmd("pat", pat)} ELSE {})
  \cup (IF sh # {} THEN {UnsubCmd("sh", sh)} ELSE {})

(* Stream returned by subscribe / psubscribe / ssubscribe: the call has   *)
(* awaited the server's acknowledgements and installed the registry.       *)
PsStart ==
  /\ \E k \in Kinds : \E S \in SUBSET NamesOfKind(k) \ {{}} :
       /\ psCh = (IF k = "ch" THEN S ELSE {})
       /\ psPat = (IF k = "pat" THEN S ELSE {})
       /\ psSh = (IF k = "sh" THEN S ELSE {})
       /\ origNames = { Name(k, n) : n \in S }
       /\ srvSubs = { Name(k, n) : n \in S }
       /\ registry = { Name(k, n) : n \in S }
  /\ psClosed = FALSE /\ closeStage = "none" /\ closeNames = {} /\ closeRes = "none" /\ pspc = "live"
  /\ sink = <<>> /\ recv = <<>> /\ lastPoll = NoPoll /\ pollCount = 0
  /\ pubLog = <<>> /\ pubCount = 0 /\ dropCount = 0
  /\ ffQueue = {} /\ ffSent = {} /\ heldAtDrop = {}
  /\ build = "debug"
  /\ DecIdle /\ ProbeIdle /\ TxIdle /\ XIdle

PsInit == PsStart /\ RcIdle /\ PlIdle

(* Another connection publishes m to t. *)
Publish ==
  /\ pubCount < MaxPub
  /\ \E t \in ChannelNames \cup ShardNames, m \in Msgs :
       LET pushes == PushesFor(srvSubs, t, m)
           routed == Route(sink, dropCount, pushes,
                           IF pspc = "live" THEN registry ELSE {})
       IN /\ sink' = routed.sink
          /\ dropCount' = routed.drops
          /\ pubLog' = IF pspc = "live"
                         THEN pubLog \o [i \in 1..Len(pushes) |-> pushes[i].msg]
                         ELSE pubLog
          /\ LET own == PushesFor(Held(psCh, psPat, psSh), t, m) IN
               postLog' = IF reconn = "done" /\ pspc = "live"
                            THEN postLog \o [i \in 1..Len(own) |-> own[i].msg]
                            ELSE postLog
  /\ pubCount' = pubCount + 1
  /\ UNCHANGED <<psCh, psPat, psSh, psClosed, closeStage, closeNames, closeRes, pspc,
                 origNames, srvSubs, registry, recv, lastPoll, pollCount,
                 ffQueue, ffSent, heldAtDrop, decVars, probeVars, txVars, xVars,
                 autoResub, reconn, resub, delMark, dropMark, plVars>>

(* The stream's sender is held by the router's registry entries under    *)
(* the stream's names; once none is left the receiver has ended.          *)
SenderGone == registry \cap origNames = {}

(* PubSubStream::poll_next; Poll::Pending is no step. *)
Poll ==
  /\ pspc = "live" /\ closeStage = "none" /\ pollCount < MaxPolls
  /\ LET r == PollResult(psClosed, sink, SenderGone) IN
       /\ r # Pending
       /\ lastPoll' = r
       /\ IF r.k = "end" THEN UNCHANGED <<sink, recv>>
          ELSE /\ sink' = Tail(sink)
               /\ recv' = Append(recv, r)
  /\ pollCount' = pollCount + 1
  /\ UNCHANGED <<psCh, psPat, psSh, psClosed, closeStage, closeNames, closeRes, pspc,
                 origNames, srvSubs, registry, pubLog, pubCount, dropCount,
                 ffQueue, ffSent, heldAtDrop, decVars, probeVars, txVars, xVars, rcVars, plVars>>

(* PubSubStream::close is entered. *)
CloseStart ==
  /\ pspc = "live" /\ closeStage = "none"
  /\ closeStage' = "ch"
  /\ closeRes' = "running"
  /\ UNCHANGED <<psCh, psPat, psSh, psClosed, closeNames, pspc, origNames, srvSubs, registry,
                 sink, recv, lastPoll, pollCount, pubLog, pubCount, dropCount,
                 ffQueue, ffSent, heldAtDrop, decVars, probeVars, txVars, xVars, rcVars, plVars>>

NextStage(st) == CASE st = "ch" -> "pat" [] st = "pat" -> "sh" [] st = "sh" -> "none"

WaitStage(st) == CASE st = "ch" -> "ch_wait" [] st = "pat" -> "pat_wait" [] st = "sh" -> "sh_wait"
StageOfWait(w) == CASE w = "ch_wait" -> "ch" [] w = "pat_wait" -> "pat" [] w = "sh_wait" -> "sh"

(* `swap; if !set.is_empty() { (p|s)unsubscribe(set)` of close(): the set  *)
(* is swapped out of the stream and the command is sent; close() is then  *)
(* suspended at the .await.  An empty set goes straight to the next step; *)
(* after the shard channels, closed = true and Ok(()).                    *)
CloseSend ==
  /\ pspc = "live" /\ closeStage \in {"ch", "pat", "sh"}
  /\ LET st == closeStage
         held == CASE st = "ch" -> psCh [] st = "pat" -> psPat [] st = "sh" -> psSh
     IN /\ psCh' = (IF st = "ch" THEN {} ELSE psCh)
        /\ psPat' = (IF st = "pat" THEN {} ELSE psPat)
        /\ psSh' = (IF st = "sh" THEN {} ELSE psSh)
        /\ IF held = {}
             THEN /\ closeStage' = NextStage(st)
                  /\ psClosed' = (psClosed \/ st = "sh")
                  /\ closeRes' = (IF st = "sh" THEN "ok" ELSE closeRes)
                  /\ UNCHANGED closeNames
             ELSE /\ closeStage' = WaitStage(st)
                  /\ closeNames' = { Name(st, n) : n \in held }
                  /\ UNCHANGED <<psClosed, closeRes>>
  /\ UNCHANGED <<pspc, origNames, srvSubs, registry, sink, recv, lastPoll, pollCount,
                 pubLog, pubCount, dropCount, ffQueue, ffSent, heldAtDrop,
                 decVars, probeVars, txVars, xVars, rcVars, plVars>>

(* The awaited unsubscribe completes: it succeeds (the server has removed *)
(* the names and the registry entries are gone) or returns an error, and   *)
(* `?` returns it, either after the server applied the command or before  *)
(* it reached the server.                                                  *)
CloseAwait ==
  /\ pspc = "live" /\ closeStage \in {"ch_wait", "pat_wait", "sh_wait"}
  /\ LET st == StageOfWait(closeStage)
         names == closeNames
     IN \E outcome \in {"ok", "err_applied", "err_lost"} :
          /\ srvSubs' = IF outcome \in {"ok", "err_applied"} THEN srvSubs \ names ELSE srvSubs
          /\ registry' = IF outcome = "ok" THEN registry \ names ELSE registry
          /\ closeNames' = {}
          /\ IF outcome = "ok"
               THEN /\ closeStage' = NextStage(st)
                    /\ psClosed' = (psClosed \/ st = "sh")
                    /\ closeRes' = (IF st = "sh" THEN "ok" ELSE closeRes)
               ELSE /\ closeStage' = "none"
                    /\ closeRes' = "err"
                    /\ UNCHANGED psClosed
  /\ UNCHANGED <<psCh, psPat, psSh, pspc, origNames, sink, recv, lastPoll, pollCount,
                 pubLog, pubCount, dropCount, ffQueue, ffSent, heldAtDrop,
                 decVars, probeVars, txVars, xVars, rcVars, plVars>>

(* The caller drops the close() future while it is suspended at the       *)
(* .await (select!, timeout): the swapped-out set is gone from the stream, *)
(* closed stays false and the stream is usable again.  The unsubscribe     *)
(* already written is still processed by the connection like a forgotten  *)
(* one, or had not reached the wire yet.                                   *)
CancelClose ==
  /\ pspc = "live" /\ closeStage \in {"ch_wait", "pat_wait", "sh_wait"}
  /\ \E written \in BOOLEAN :
       ffQueue' = IF written THEN ffQueue \cup closeNames ELSE ffQueue
  /\ closeStage' = "none"
  /\ closeNames' = {}
  /\ closeRes' = "cancelled"
  /\ UNCHANGED <<psCh, psPat, psSh, psClosed, pspc, origNames, srvSubs, registry,
                 sink, recv, lastPoll, pollCount, pubLog, pubCount, dropCount,
                 ffSent, heldAtDrop, decVars, probeVars, txVars, xVars, rcVars, plVars>>

(* Drop for PubSubStream (not while a close() call is in progress). *)
Drop ==
  /\ pspc = "live" /\ closeStage = "none"
  /\ pspc' = "dropped"
  /\ IF psClosed
       THEN UNCHANGED <<psCh, psPat, psSh, ffQueue, ffSent, heldAtDrop>>
       ELSE /\ ffSent' = DropCmds(psCh, psPat, psSh)
            /\ ffQueue' = ffQueue \cup Held(psCh, psPat, psSh)
            /\ heldAtDrop' = Held(psCh, psPat, psSh)
            /\ psCh' = {} /\ psPat' = {} /\ psSh' = {}
  /\ UNCHANGED <<psClosed, closeStage, closeNames, closeRes, origNames, srvSubs, registry, sink,
                 recv, lastPoll, pollCount, pubLog, pubCount, dropCount,
                 decVars, probeVars, txVars, xVars, rcVars, plVars>>

(* A fire-and-forget unsubscribe reaches the server and is acknowledged. *)
DeliverForgotten ==
  /\ \E x \in ffQueue :
       /\ ffQueue' = ffQueue \ {x}
       /\ srvSubs' = srvSubs \ {x}
       /\ registry' = registry \ {x}
  /\ UNCHANGED <<psCh, psPat, psSh, psClosed, closeStage, closeNames, closeRes, pspc, origNames,
                 sink, recv, lastPoll, pollCount, pubLog, pubCount, dropCount,
                 ffSent, heldAtDrop, decVars, probeVars, txVars, xVars, rcVars, plVars>>

PsNext == Publish \/ Poll \/ CloseStart \/ CloseSend \/ CloseAwait \/ CancelClose
          \/ Drop \/ DeliverForgotten

PsSpec == PsInit /\ [][PsNext]_vars

(* C15: once close() has returned Ok, every poll of the stream yields end  *)
(* of stream, whatever is still queued in its sink.                        *)
PollAfterCloseIsEnd ==
  [][(psClosed /\ pollCount' = pollCount + 1) => lastPoll' = EndOfStream]_vars

C15Witness == psClosed /\ sink # <<>> /\ lastPoll = EndOfStream

(* C16: when close() returns Ok the server holds none of the stream's     *)
(* channels, patterns or shard channels, and the stream is marked closed  *)
(* only by a close() that unsubscribed all of them.                        *)
CloseUnsubscribesAll ==
  /\ closeRes = "ok" => (psClosed /\ srvSubs \cap origNames = {})
  /\ psClosed => closeRes \in {"ok", "running"}

(* C17: dropping a stream that was not closed enqueues one unsubscribe per *)
(* non-empty set it holds; dropping a closed stream sends nothing.         *)
DropEnqueuesUnsubscribes ==
  pspc = "dropped" =>
    /\ ffSent = { UnsubCmd(k, { x.n : x \in { y \in heldAtDrop : y.k = k } }) :
                  k \in { x.k : x \in heldAtDrop } }
    /\ psClosed => ffSent = {}
    /\ ~psClosed => heldAtDrop \subseteq origNames

C17Witness == pspc = "dropped" /\ ~psClosed /\ ffSent # {} /\ closeRes = "none"

(* C18: on every exit path each name the stream subscribed to gets an     *)
(* unsubscribe, from close() or from the destructor: once the stream is    *)
(* dropped and the destructor's unsubscribes have been processed, the     *)
(* server holds none of them.                                             *)
CleanupOnEveryPath ==
  (pspc = "dropped" /\ ffQueue = {}) => srvSubs \cap origNames = {}

(* C20: for a stream from subscribe / ssubscribe, the messages published  *)
(* to its channels while subscribed are delivered with matching channel   *)
(* and payload, in publish order: received plus still queued equals       *)
(* published.                                                              *)
ChannelStream == \A x \in origNames : x.k \in {"ch", "sh"}
Delivered == recv \o [i \in 1..Len(sink) |-> ReceiverItem(sink[i])]

RoundTripAllDelivered ==
  (pspc = "live" /\ ChannelStream) => Delivered = pubLog

RECURSIVE IsSubSeq(_, _)
IsSubSeq(a, b) ==
  IF a = <<>> THEN TRUE
  ELSE IF b = <<>> THEN FALSE
  ELSE IF Head(a) = Head(b) THEN IsSubSeq(Tail(a), Tail(b))
  ELSE IsSubSeq(a, Tail(b))

(* C20 as amended: the delivered messages are the published ones in       *)
(* publish order with matching channel and payload, except the pushes     *)
(* that arrived while the stream's sink was full, which were dropped.     *)
RoundTripInOrder ==
  (pspc = "live" /\ ChannelStream) =>
    /\ IsSubSeq(Delivered, pubLog)
    /\ Len(Delivered) + dropCount = Len(pubLog)

C20Witness ==
  /\ pspc = "live" /\ ChannelStream /\ dropCount > 0 /\ Len(recv) > 0

(***************************************************************************)
(* extract_message on the items a stream's receiver can yield.             *)
(***************************************************************************)
MaxParts == 4
PartVals == { BulkVal(<<"a">>), BulkVal(<<"b">>), IntVal(1) }
Items == { ArrVal(ps) : ps \in UNION { [1..n -> PartVals] : n \in 0..MaxParts } }

XInit ==
  /\ xitem \in Items
  /\ xres = NoPoll
  /\ build = "debug"
  /\ DecIdle /\ ProbeIdle /\ TxIdle /\ PsIdle /\ RcIdle /\ PlIdle

ExtractStep ==
  /\ xres = NoPoll
  /\ xres' = ExtractMessage(xitem)
  /\ UNCHANGED <<xitem, decVars, probeVars, txVars, psVars, rcVars, plVars>>

XNext == ExtractStep

XSpec == XInit /\ [][XNext]_vars

(* C19: [channel, payload] becomes {pattern: Nil, channel, payload},       *)
(* [pattern, channel, payload] becomes {pattern, channel, payload}, any    *)
(* other shape a Client error item.                                        *)
MessageShapes ==
  xres # NoPoll =>
    LET a == xitem.a IN
    /\ Len(a) = 2 => xres = XRes("ok", NilVal, a[1], a[2])
    /\ Len(a) = 3 => xres = XRes("ok", a[1], a[2], a[3])
    /\ Len(a) \notin {2, 3} => xres.k = "err"

C19Witness == xres # NoPoll /\ Len(xitem.a) = 3 /\ xitem.a[1] # xitem.a[2]


(* C21: for a stream from psubscribe, every message published to a        *)
(* channel C matching a subscribed pattern P is delivered tagged with      *)
(* pattern P and channel C, in publish order: received plus still queued  *)
(* equals the pmessages published.                                         *)
PatternStream == \A x \in origNames : x.k = "pat"

PatternRoundTripAllDelivered ==
  (pspc = "live" /\ PatternStream) => Delivered = pubLog

(* C21 as amended: the delivered messages are the published pmessages in  *)
(* publish order, each tagged with a subscribed pattern that matches its  *)
(* channel, except those that arrived while the sink was full.            *)
PatternTaggedInOrder ==
  (pspc = "live" /\ PatternStream) =>
    /\ IsSubSeq(Delivered, pubLog)
    /\ Len(Delivered) + dropCount = Len(pubLog)
    /\ \A i \in 1..Len(Delivered) :
         \E pt \in PatternNames, c \in ChannelNames :
           /\ Name("pat", pt) \in origNames /\ PatMatches(pt, c)
           /\ Delivered[i].pattern = BulkVal(<<pt>>)
           /\ Delivered[i].channel = BulkVal(<<c>>)

C21Witness ==
  /\ pspc = "live" /\ PatternStream /\ dropCount > 0 /\ Len(recv) > 0
  /\ \E i \in 1..Len(recv) : recv[i].pattern = BulkVal(<<"c1">>)


(***************************************************************************)
(* A stream grown by further subscribe / psubscribe / ssubscribe calls on  *)
(* the stream itself (spec section 3.5; registration as in section 4.5).   *)
(***************************************************************************)
MaxNames == 3

(* stream.subscribe / psubscribe / ssubscribe(n): the server acknowledges, *)
(* then n is bound to the stream's sink and added to the stream's set.     *)
StreamSubscribe ==
  /\ pspc = "live" /\ closeStage = "none" /\ closeRes = "none" /\ ~psClosed
  /\ Cardinality(origNames) < MaxNames
  /\ \E k \in Kinds : \E n \in NamesOfKind(k) :
       /\ Name(k, n) \notin origNames
       /\ psCh' = (IF k = "ch" THEN psCh \cup {n} ELSE psCh)
       /\ psPat' = (IF k = "pat" THEN psPat \cup {n} ELSE psPat)
       /\ psSh' = (IF k = "sh" THEN psSh \cup {n} ELSE psSh)
       /\ origNames' = origNames \cup {Name(k, n)}
       /\ srvSubs' = srvSubs \cup {Name(k, n)}
       /\ registry' = registry \cup {Name(k, n)}
  /\ UNCHANGED <<psClosed, closeStage, closeNames, closeRes, pspc, sink, recv, lastPoll, pollCount,
                 pubLog, pubCount, dropCount, ffQueue, ffSent, heldAtDrop,
                 decVars, probeVars, txVars, xVars, rcVars, plVars>>

GrowInit == PsInit /\ Cardinality(origNames) = 1

GrowNext == Publish \/ Poll \/ StreamSubscribe

GrowSpec == GrowInit /\ [][GrowNext]_vars

(* A delivered message is for one of the stream's names: a message for a  *)
(* channel or shard channel it holds, or a pmessage tagged with a pattern  *)
(* it holds that matches the channel.                                       *)
ForStreamName(msg) ==
  \/ \E c \in ChannelNames \cup ShardNames :
       /\ msg.pattern = NilVal /\ msg.channel = BulkVal(<<c>>)
       /\ (Name("ch", c) \in origNames \/ Name("sh", c) \in origNames)
  \/ \E pt \in PatternNames, c \in ChannelNames :
       /\ Name("pat", pt) \in origNames /\ PatMatches(pt, c)
       /\ msg.pattern = BulkVal(<<pt>>) /\ msg.channel = BulkVal(<<c>>)

(* C22: a stream grown by further subscribe / psubscribe calls receives   *)
(* the messages for all its channels and patterns, old and new, on the     *)
(* same stream in publish order: received plus queued equals published.    *)
GrowAllDelivered ==
  (pspc = "live" /\ closeRes = "none") => Delivered = pubLog

(* C22 as amended: the grown stream's delivered messages are the ones     *)
(* published to its old and new names, in publish order, except those     *)
(* that arrived while its sink was full.                                   *)
GrowDeliveredInOrder ==
  (pspc = "live" /\ closeRes = "none") =>
    /\ IsSubSeq(Delivered, pubLog)
    /\ Len(Delivered) + dropCount = Len(pubLog)
    /\ \A i \in 1..Len(Delivered) : ForStreamName(Delivered[i])

C22Witness ==
  /\ pspc = "live" /\ closeRes = "none" /\ dropCount > 0
  /\ \E x, y \in origNames : x.k # y.k
  /\ \E i, j \in 1..Len(recv) : recv[i].pattern = NilVal /\ recv[j].pattern # NilVal


(***************************************************************************)
(* Reconnect supervisor (spec section 4.7) seen from one live stream: the  *)
(* connection is killed and re-established; with auto_resubscribe the     *)
(* registry is replayed before the reconnected notification, otherwise    *)
(* the registry is kept but the new connection holds no subscription      *)
(* until the caller resubscribes.  postLog holds the messages published   *)
(* to the stream's names since the notification (or the manual            *)
(* resubscribe); delMark and dropMark mark what was delivered and dropped *)
(* by then.                                                                *)
(***************************************************************************)
Reconnect ==
  /\ pspc = "live" /\ closeStage = "none" /\ closeRes = "none" /\ reconn = "none"
  /\ srvSubs' = IF autoResub THEN registry ELSE {}
  /\ reconn' = "done"
  /\ postLog' = <<>>
  /\ delMark' = Len(Delivered)
  /\ dropMark' = dropCount
  /\ UNCHANGED <<psCh, psPat, psSh, psClosed, closeStage, closeNames, closeRes, pspc, origNames,
                 registry, sink, recv, lastPoll, pollCount, pubLog, pubCount, dropCount,
                 ffQueue, ffSent, heldAtDrop, autoResub, resub,
                 decVars, probeVars, txVars, xVars, plVars>>

(* The caller subscribes the stream's names again after a reconnect. *)
ManualResubscribe ==
  /\ pspc = "live" /\ closeStage = "none" /\ closeRes = "none"
  /\ reconn = "done" /\ ~autoResub /\ ~resub
  /\ srvSubs' = srvSubs \cup Held(psCh, psPat, psSh)
  /\ resub' = TRUE
  /\ postLog' = <<>>
  /\ delMark' = Len(Delivered)
  /\ dropMark' = dropCount
  /\ UNCHANGED <<psCh, psPat, psSh, psClosed, closeStage, closeNames, closeRes, pspc, origNames,
                 registry, sink, recv, lastPoll, pollCount, pubLog, pubCount, dropCount,
                 ffQueue, ffSent, heldAtDrop, autoResub, reconn,
                 decVars, probeVars, txVars, xVars, plVars>>

ReconnInit ==
  /\ PsStart
  /\ autoResub \in BOOLEAN /\ reconn = "none" /\ resub = FALSE
  /\ postLog = <<>> /\ delMark = 0 /\ dropMark = 0
  /\ PlIdle

ReconnNext == Publish \/ Poll \/ Reconnect \/ ManualResubscribe

ReconnSpec == ReconnInit /\ [][ReconnNext]_vars

(* Messages delivered to the stream since the mark. *)
PostDelivered == SubSeq(Delivered, delMark + 1, Len(Delivered))

(* C23: with auto_resubscribe = true, after the reconnect notification     *)
(* every message published to the stream's channels and patterns is       *)
(* delivered to the stream, in publish order.                              *)
ResubAllDelivered ==
  (reconn = "done" /\ autoResub /\ pspc = "live") => PostDelivered = postLog

(* C23 as amended: the stream receives the messages published to its      *)
(* names after the notification, in publish order, except those that      *)
(* arrived while its sink was full.                                        *)
ResubDeliveredInOrder ==
  (reconn = "done" /\ autoResub /\ pspc = "live") =>
    /\ IsSubSeq(PostDelivered, postLog)
    /\ Len(PostDelivered) + (dropCount - dropMark) = Len(postLog)

C23Witness ==
  /\ reconn = "done" /\ autoResub /\ pspc = "live"
  /\ Len(PostDelivered) > 0 /\ Len(recv) > delMark

(***************************************************************************)
(* Command pipeline of one connection (spec sections 4.2 and 4.3): each    *)
(* submit enqueues one entry per command before the single concatenated    *)
(* write; the server answers the written commands in order; the bytes     *)
(* reach the reader in chunks, and the reader decodes them with the codec  *)
(* (ValueDecoder::decode) and pairs each frame with the head entry.  A     *)
(* request is identified by its submission index.                          *)
(***************************************************************************)
MaxReq == 3
MaxBatch == 2

RespFrames == { Enc(BulkVal(<<"v">>)), Enc(ArrVal(<<IntVal(1)>>)) }

Slot(st, v) == [st |-> st, v |-> v]

PipeInit ==
  /\ PlIdle
  /\ build = "debug"
  /\ DecIdle /\ ProbeIdle /\ TxIdle /\ PsIdle /\ XIdle /\ RcIdle

(* send / send_batch: n entries enqueued, then one write of n commands. *)
Submit ==
  /\ \E n \in 1..MaxBatch :
       /\ Len(plResp) + n <= MaxReq
       /\ LET ids == [i \in 1..n |-> Len(plResp) + i] IN
            /\ plQueue' = plQueue \o ids
            /\ plWire' = plWire \o ids
            /\ plBatches' = Append(plBatches, ids)
            /\ plSlot' = plSlot \o [i \in 1..n |-> Slot("pending", NoVal)]
       /\ \E fr \in [1..n -> RespFrames] : plResp' = plResp \o fr
  /\ UNCHANGED <<plOut, plServed, plArr, plBuf, plDone,
                 decVars, probeVars, txVars, psVars, xVars, rcVars>>

(* The server executes the next written command and writes its reply. *)
Serve ==
  /\ plServed < Len(plWire)
  /\ plOut' = plOut \o plResp[plWire[plServed + 1]]
  /\ plServed' = plServed + 1
  /\ UNCHANGED <<plQueue, plWire, plBatches, plResp, plArr, plBuf, plSlot, plDone,
                 decVars, probeVars, txVars, psVars, xVars, rcVars>>

(* The next byte of the server's output reaches the reader's buffer; a   *)
(* larger chunk is several arrivals with no read between them.           *)
Arrive ==
  /\ plArr < Len(plOut)
  /\ plBuf' = Append(plBuf, plOut[plArr + 1])
  /\ plArr' = plArr + 1
  /\ UNCHANGED <<plQueue, plWire, plBatches, plResp, plOut, plServed, plSlot, plDone,
                 decVars, probeVars, txVars, psVars, xVars, rcVars>>

(* The reader decodes one frame and completes the head entry; the frame   *)
(* of an entry whose handle was dropped or timed out is discarded.         *)
ReadResponse ==
  /\ plQueue # <<>>
  /\ \E r \in DecodeOutcomes(plBuf, "debug") :
     LET id == Head(plQueue)
     IN /\ r.k = "some"
        /\ plSlot' = [plSlot EXCEPT ![id] =
                        IF plSlot[id].st = "pending" THEN Slot("done", r.v)
                        ELSE Slot("discarded", NoVal)]
        /\ plBuf' = AdvanceBuf(plBuf, r)
        /\ plQueue' = Tail(plQueue)
        /\ plDone' = Append(plDone, id)
  /\ UNCHANGED <<plWire, plBatches, plResp, plOut, plServed, plArr,
                 decVars, probeVars, txVars, psVars, xVars, rcVars>>

(* The caller drops a pending request handle: the entry stays queued. *)
DropHandle ==
  /\ \E id \in 1..Len(plSlot) :
       /\ plSlot[id].st = "pending"
       /\ plSlot' = [plSlot EXCEPT ![id] = Slot("dropped", NoVal)]
  /\ UNCHANGED <<plQueue, plWire, plBatches, plResp, plOut, plServed, plArr, plBuf, plDone,
                 decVars, probeVars, txVars, psVars, xVars, rcVars>>

(* A request's timeout expires: the caller gets Timeout and the entry     *)
(* becomes a discard-on-arrival marker.                                    *)
TimeoutHandle ==
  /\ \E id \in 1..Len(plSlot) :
       /\ plSlot[id].st = "pending"
       /\ plSlot' = [plSlot EXCEPT ![id] = Slot("timedout", NoVal)]
  /\ UNCHANGED <<plQueue, plWire, plBatches, plResp, plOut, plServed, plArr, plBuf, plDone,
                 decVars, probeVars, txVars, psVars, xVars, rcVars>>

PipeNext == Submit \/ Serve \/ Arrive \/ ReadResponse \/ DropHandle \/ TimeoutHandle

PipeSpec == PipeInit /\ [][PipeNext]_vars

(* The value the request's own reply frame decodes to. *)
Own(id) == ValueDecode(plResp[id], "debug", "ok").v


(* C27: for any interleaving of single and batch submits, requests are    *)
(* written in submission order, their entries complete in that order, and *)
(* every completed request (a batch's n results included, in order) holds *)
(* the value of its own reply.                                             *)
PipelineFIFO ==
  /\ plWire = [i \in 1..Len(plWire) |-> i]
  /\ plDone = SubSeq(plWire, 1, Len(plDone))
  /\ \A b \in 1..Len(plBatches) : \A i \in 1..Len(plBatches[b]) :
       plSlot[plBatches[b][i]].st = "done" => plSlot[plBatches[b][i]].v = Own(plBatches[b][i])

C27Witness ==
  /\ \E b \in 1..Len(plBatches) :
       /\ Len(plBatches[b]) = 2
       /\ \A i \in 1..2 : plSlot[plBatches[b][i]].st = "done"
  /\ Len(plBatches) = 2
  /\ \E id \in 1..Len(plResp) : plResp[id] = Enc(ArrVal(<<IntVal(1)>>)) /\ plSlot[id].st = "done"

(* C28: a request whose handle was dropped or timed out keeps its entry;   *)
(* its reply is consumed and discarded, and every other request completes  *)
(* with its own reply.                                                     *)
DroppedKeepsPairing ==
  /\ plQueue = SubSeq(plWire, Len(plDone) + 1, Len(plWire))
  /\ \A id \in 1..Len(plSlot) :
       /\ plSlot[id].st \in {"dropped", "timedout"} => \E i \in 1..Len(plQueue) : plQueue[i] = id
       /\ plSlot[id].st = "done" => plSlot[id].v = Own(id)
  /\ \A i \in 1..Len(plDone) : plSlot[plDone[i]].st \in {"done", "discarded"}

C28Witness ==
  \E i, j \in 1..Len(plDone) :
    /\ i < j
    /\ plSlot[plDone[i]].st = "discarded"
    /\ plSlot[plDone[j]].st = "done"
    /\ plResp[plDone[j]] = Enc(ArrVal(<<IntVal(1)>>))


(* C29: when exactly one unforgotten EXEC result remains and it is a      *)
(* server error, execute fails with that error; when two or more remain,  *)
(* error values are elements of the returned array and execute succeeds.  *)
SingleErrorFailsManyReturned ==
  (tpc = "done" /\ LeadOk /\ ExecReply.t = "arr" /\ Len(ExecReply.a) = NumQueued) =>
    /\ (Len(Survivors) = 1 /\ Survivors[1].t = "error") => tres = TxErr("redis", Survivors[1])
    /\ Len(Survivors) >= 2 => tres = TxOk(ArrVal(Survivors))

C29Witness ==
  /\ tpc = "done" /\ LeadOk /\ ExecReply.t = "arr" /\ Len(tflags) = 3
  /\ Len(ExecReply.a) = NumQueued
  /\ Len(Survivors) = 1 /\ Survivors[1].t = "error" /\ tres.e = "redis"

(* Positions of the queued commands not sent with forget, and the x-th     *)
(* smallest of them.                                                       *)
KeptPositions == { i \in 1..NumQueued : ~tflags[i + 1] }

KeptPos(x) == CHOOSE i \in KeptPositions : Cardinality({j \in KeptPositions : j <= i}) = x

(* C30: the transaction sends MULTI (forget flag false), the queued        *)
(* commands in queue order and EXEC; for any mix of queue and forget      *)
(* calls, the forget flag of the i-th queued command decides whether the  *)
(* i-th element of the EXEC array is returned: the returned values are    *)
(* exactly the EXEC elements at the non-forgotten positions, in order, and *)
(* a single one is unwrapped (an error one as Err(Redis)).                 *)
TxBatchAligned ==
  /\ tcmds[1] = "MULTI" /\ tflags[1] = FALSE
  /\ Len(tcmds) = Len(tflags) + (IF tpc = "done" THEN 1 ELSE 0)
  /\ tpc = "done" => tcmds[Len(tcmds)] = "EXEC"
  /\ (tpc = "done" /\ LeadOk /\ ExecReply.t = "arr" /\ Len(ExecReply.a) = NumQueued) =>
       IF Cardinality(KeptPositions) = 1
       THEN LET v == ExecReply.a[KeptPos(1)] IN
            tres = IF v.t = "error" THEN TxErr("redis", v) ELSE TxOk(v)
       ELSE /\ tres.k = "ok" /\ tres.v.t = "arr"
            /\ Len(tres.v.a) = Cardinality(KeptPositions)
            /\ \A x \in 1..Len(tres.v.a) : tres.v.a[x] = ExecReply.a[KeptPos(x)]

(* The spec's scenario 5: forget SET, then queue GET; GET's result alone *)
(* is returned.                                                           *)
C30Witness ==
  /\ tpc = "done" /\ LeadOk /\ ExecReply.t = "arr"
  /\ tcmds = <<"MULTI", "SET", "GET", "EXEC">>
  /\ tflags = <<FALSE, TRUE, FALSE>> /\ Len(ExecReply.a) = NumQueued
  /\ ExecReply.a[1] # ExecReply.a[2]
  /\ tres = TxOk(ExecReply.a[2])

====
